---- MODULE Spec2Model ----
(***************************************************************************)
(* The data-clock consensus core of node/consensus/data/consensus_frames.go *)
(* as a state machine: collect/sync against the peer registry (Spec) and   *)
(* the proving round over the staging buffer (ProveSpec).                  *)
(***************************************************************************)
EXTENDS Integers, Sequences, FiniteSets, TLC

\* ------------------------------------------------------------------ bounds
NumPeers == 2
MaxFrame == 2
MaxTime == 2
MaxTx == 2
\* the width of a score in bits, for the 64 of int64
ScoreBits == 2

\* ------------------------------------------------- configuration constants
\* config.GetMinimumVersionCutoff().UnixMilli() and config.GetMinimumVersion(),
\* as the values GetAheadPeers compares against
MinimumVersionCutoff == 0
MinimumVersion == 1

Peers == 1..NumPeers
FrameNumbers == 0..MaxFrame
Times == 1..MaxTime
\* collect is followed for two callers; the loop of the engine is the first
\* of them and calls it one call after the other
Collectors == {1, 2}
\* prove is followed for two callers, and for one of them alone
Provers == {1, 2}
TxIds == 1..MaxTx
\* the goroutines that call the score functions of BlossomSub
Scorers == {1, 2}

\* a nil *protobufs.ClockFrame
Nil == [nil |-> TRUE]

max(a, b) == IF a >= b THEN a ELSE b

\* a *protobufs.ClockFrame, reduced to the fields collect and sync read
ClockFrame(n, ts) == [FrameNumber |-> n, Timestamp |-> ts]
ClockFrames == [FrameNumber : FrameNumbers, Timestamp : Times]

\* a peerInfo value of peerMap / uncooperativePeersMap
PeerInfo(p, mf, ts, ver) ==
    [peerId |-> p, maxFrame |-> mf, timestamp |-> ts, version |-> ver]

\* the outcomes of client.GetDataFrame: a transport error (deadline expiry
\* included), a nil response, a response without a frame, or a frame
RpcError == [kind |-> "error"]
NilResponse == [kind |-> "nil"]
NoClockFrame == [kind |-> "noframe"]
FrameResponses ==
    [kind : {"frame"}, FrameNumber : 0..(MaxFrame + 1), Timestamp : Times,
     producerInTrie : BOOLEAN, verifies : BOOLEAN]
Responses == {RpcError, NilResponse, NoClockFrame} \cup FrameResponses

VARIABLES
    \* ---- engine state read and written by collect / sync / GetAheadPeers
    peerMap,                \* e.peerMap: peer id -> peerInfo
    uncooperativePeersMap,  \* e.uncooperativePeersMap
    latestFrameReceived,    \* e.latestFrameReceived
    engineState,            \* e.GetState(): "Collecting" or "Stopping"
    syncingStatus,          \* e.syncingStatus
    inProverTrie,           \* GetFrameProverTries()[0].Contains(provingKeyAddress)
    \* ---- one collect call per collector
    pc,                     \* position of the collector
    latest,                 \* collect's latest (Nil after a nil return of sync)
    syncErr,                \* collect's err after the last sync
    candidates,             \* candidates of the current pass not yet visited
    peerId,                 \* sync's peerId
    maxFrame,               \* sync's maxFrame
    cooperative,            \* sync's cooperative flag
    channelOpen,            \* the direct channel cc is open
    \* ---- what the collaborators have seen of the current collect call
    enqueued,               \* the frame collect was called with
    reel,                   \* frames passed to dataTimeReel.Insert, in order
    returnedAt,             \* the line sync returned at, until collect moves on
    \* ---- engine state read and written by prove
    lastProven,             \* e.lastProven
    stagedTransactions,     \* e.stagedTransactions (Nil before the first use)
    stagedTransactionsMx,   \* holder of e.stagedTransactionsMx, 0 when free
    \* ---- one prove call per prover
    ppc,                    \* position of the prover
    previousFrame,          \* previousFrame.FrameNumber
    tries,                  \* whether GetDataClockFrame delivered the tries
    validTransactions,      \* the round's valid transactions
    invalidTransactions,    \* the round's invalid transactions
    result,                 \* what the call returned
    \* ---- what the collaborators have seen
    overlapped,             \* another call with the same frame ran meanwhile
    nextTx,                 \* the next transaction a producer stages
    provenFrames,           \* numbers of the frames prove has returned as new
    partitioned,            \* tx -> rounds that put it in valid or invalid
    discarded,              \* tx -> rounds that dropped it in a failed apply
    \* ---- BlossomSub's peer scores
    peerScore,              \* b.peerScore: peer id -> score
    peerScoreMx,            \* holder of b.peerScoreMx, 0 when free
    \* ---- one score call per scorer
    spc,                    \* position of the scorer
    scoreOp,                \* the call: its kind, peer and argument
    scoreRead,              \* what the call read from b.peerScore
    \* ---- the counters the calls are held against
    linearScore,            \* peer -> score if the calls ran one at a time
    linearResult            \* what the GetPeerScore call returns if they did

syncVars == <<peerMap, uncooperativePeersMap, latestFrameReceived, engineState,
              syncingStatus, inProverTrie, pc, latest, syncErr, candidates,
              peerId, maxFrame, cooperative, channelOpen, enqueued, reel,
              returnedAt>>

proveVars == <<lastProven, stagedTransactions, stagedTransactionsMx, ppc,
               previousFrame, tries, validTransactions, invalidTransactions,
               result, overlapped, nextTx, provenFrames, partitioned,
               discarded>>

scoreVars == <<peerScore, peerScoreMx, spc, scoreOp, scoreRead, linearScore,
               linearResult>>

vars == <<syncVars, proveVars, scoreVars>>

\* ------------------------------------------------------------ GetAheadPeers
\* (mutation of IsAhead: demoted peers are not skipped)
IsAheadThoughDemoted(v, frameNumber, uncoop) ==
    /\ ~(v.maxFrame <= frameNumber)
    /\ ~(v.timestamp <= MinimumVersionCutoff)
    /\ ~(v.version < MinimumVersion)

\* the filter of the loop over e.peerMap, lines 239-250
IsAhead(v, frameNumber, uncoop) ==
    /\ ~(v.maxFrame <= frameNumber)
    /\ v.peerId \notin DOMAIN uncoop
    /\ ~(v.timestamp <= MinimumVersionCutoff)
    /\ ~(v.version < MinimumVersion)

\* (mutation of AheadPeers: a node of the prover trie follows too)
AheadPeersOfLeader(pm, uncoop, inTrie, frameNumber) ==
    {[PeerID |-> p, MaxFrame |-> pm[p].maxFrame] :
        p \in {q \in DOMAIN pm : IsAhead(pm[q], frameNumber, uncoop)}}

\* the candidates of GetAheadPeers; the weighted sample returns all of them in
\* some order, so the result is kept as the set the order is drawn from
AheadPeers(pm, uncoop, inTrie, frameNumber) ==
    IF inTrie THEN {}
    ELSE {[PeerID |-> p, MaxFrame |-> pm[p].maxFrame] :
            p \in {q \in DOMAIN pm : IsAhead(pm[q], frameNumber, uncoop)}}

GetAheadPeers(frameNumber) ==
    AheadPeers(peerMap, uncooperativePeersMap, inProverTrie, frameNumber)

\* (mutation of MaxDiff: the smallest difference is kept)
MaxDiffSmallest(cands, frameNumber) ==
    LET diffs == {c.MaxFrame - frameNumber : c \in cands} IN
    IF diffs = {} THEN 0
    ELSE CHOOSE d \in diffs : \A e \in diffs : d <= e

\* lines 228 and 251: maxDiff after the loop, the largest of the differences
\* v.maxFrame-frameNumber of the candidates, 0 when there is none
MaxDiff(cands, frameNumber) ==
    LET diffs == {c.MaxFrame - frameNumber : c \in cands} IN
    IF diffs = {} THEN 0
    ELSE CHOOSE d \in diffs : \A e \in diffs : d >= e

\* line 266: the quotient of the two float64 values, kept as the fraction
\* num/den (den = 0 is the division by zero)
Weight(c, frameNumber, maxDiff) ==
    [num |-> c.MaxFrame - frameNumber, den |-> maxDiff]

\* lines 261-267: the weights given to the candidates, none when there is no
\* candidate (line 262 returns before the loop)
Weights(cands, frameNumber) ==
    IF cands = {} THEN <<>>
    ELSE [c \in cands |-> Weight(c, frameNumber, MaxDiff(cands, frameNumber))]

\* WeightedSampleWithoutReplacement(candidates, len(candidates)): the orders
\* the sample can come out in, each candidate drawn once
SampleOrders(cands) ==
    {order \in [1..Cardinality(cands) -> cands] :
        \A i, j \in 1..Cardinality(cands) : order[i] = order[j] => i = j}

\* ------------------------------------------------ the deferred demotion
\* (mutation of DemotedUncooperative: the entry is not kept)
DemotedUncooperativeLost(pm, uncoop, p, now) == uncoop

\* (mutation of DemotedUncooperative: a peer demoted before is stamped anew)
DemotedUncooperativeRestamped(pm, uncoop, p, now) ==
    IF p \in DOMAIN pm
    THEN [q \in DOMAIN uncoop \cup {p} |->
            IF q = p THEN [pm[p] EXCEPT !.timestamp = now] ELSE uncoop[q]]
    ELSE IF p \in DOMAIN uncoop
    THEN [uncoop EXCEPT ![p].timestamp = now]
    ELSE uncoop

\* lines 286-297: under peerMapMx, move the entry and stamp the time
DemotedUncooperative(pm, uncoop, p, now) ==
    IF p \in DOMAIN pm
    THEN [q \in DOMAIN uncoop \cup {p} |->
            IF q = p THEN [pm[p] EXCEPT !.timestamp = now] ELSE uncoop[q]]
    ELSE uncoop

\* (mutation of DemotedPeerMap: the entry is not deleted)
DemotedPeerMapKept(pm, p) == pm

DemotedPeerMap(pm, p) ==
    IF p \in DOMAIN pm
    THEN [q \in DOMAIN pm \ {p} |-> pm[q]]
    ELSE pm

\* -------------------------------------------------------------------- Init
SyncInit ==
    /\ peerMap = <<>>
    /\ uncooperativePeersMap = <<>>
    /\ latestFrameReceived = 0
    /\ engineState = "Collecting"
    /\ syncingStatus = "NotSyncing"
    /\ inProverTrie \in BOOLEAN
    /\ pc = [t \in Collectors |-> "idle"]
    /\ latest = [t \in Collectors |-> Nil]
    /\ syncErr = [t \in Collectors |-> FALSE]
    /\ candidates = [t \in Collectors |-> {}]
    /\ peerId = [t \in Collectors |-> 1]
    /\ maxFrame = [t \in Collectors |-> 0]
    /\ cooperative = [t \in Collectors |-> TRUE]
    /\ channelOpen = [t \in Collectors |-> FALSE]
    /\ enqueued = [t \in Collectors |-> Nil]
    /\ reel = [t \in Collectors |-> <<>>]
    /\ returnedAt = [t \in Collectors |-> 0]

\* ------------------------------------------------------- the peer registry
\* UpsertPeer: inserts or replaces the cooperative entry of a peer that
\* announced itself; stale versions and timestamps are refused
UpsertAccepted(info) ==
    /\ ~(info.version < MinimumVersion)
    /\ ~(info.timestamp <= MinimumVersionCutoff)

UpsertPeer(p) ==
    \E mf \in 1..MaxFrame,
       ts \in {MinimumVersionCutoff, MinimumVersionCutoff + 1},
       ver \in {MinimumVersion - 1, MinimumVersion} :
        LET info == PeerInfo(p, mf, ts, ver) IN
        /\ UpsertAccepted(info)
        /\ peerMap' = [q \in DOMAIN peerMap \cup {p} |->
                         IF q = p THEN info ELSE peerMap[q]]
        /\ uncooperativePeersMap' =
             [q \in DOMAIN uncooperativePeersMap \ {p} |->
                uncooperativePeersMap[q]]
        /\ UNCHANGED <<latestFrameReceived, engineState, syncingStatus,
                       inProverTrie, pc, latest, syncErr, candidates, peerId,
                       maxFrame, cooperative, channelOpen, enqueued, reel, returnedAt>>

\* the high-water mark of frames heard of moves up
ReceiveFrame ==
    /\ \E n \in FrameNumbers :
         /\ n > latestFrameReceived
         /\ latestFrameReceived' = n
    /\ UNCHANGED <<peerMap, uncooperativePeersMap, engineState, syncingStatus,
                   inProverTrie, pc, latest, syncErr, candidates, peerId,
                   maxFrame, cooperative, channelOpen, enqueued, reel, returnedAt>>

\* the engine is told to stop
Stop ==
    /\ engineState = "Collecting"
    /\ engineState' = "Stopping"
    /\ UNCHANGED <<peerMap, uncooperativePeersMap, latestFrameReceived,
                   syncingStatus, inProverTrie, pc, latest, syncErr,
                   candidates, peerId, maxFrame, cooperative, channelOpen,
                   enqueued, reel, returnedAt>>

\* ----------------------------------------------------------------- collect
\* line 30: collect(enqueuedFrame)
CollectStart(t) ==
    /\ pc[t] \in {"idle", "done"}
    /\ \E f \in ClockFrames :
         /\ latest' = [latest EXCEPT ![t] = f]
         /\ enqueued' = [enqueued EXCEPT ![t] = f]
    /\ pc' = [pc EXCEPT ![t] = "getAhead"]
    /\ syncErr' = [syncErr EXCEPT ![t] = FALSE]
    /\ reel' = [reel EXCEPT ![t] = <<>>]
    /\ UNCHANGED <<peerMap, uncooperativePeersMap, latestFrameReceived,
                   engineState, syncingStatus, inProverTrie, candidates,
                   peerId, maxFrame, cooperative, channelOpen, returnedAt>>

\* sync's locals are gone once collect moves on
SyncLocalsGone(t) ==
    /\ peerId' = [peerId EXCEPT ![t] = 1]
    /\ maxFrame' = [maxFrame EXCEPT ![t] = 0]
    /\ cooperative' = [cooperative EXCEPT ![t] = TRUE]
    /\ returnedAt' = [returnedAt EXCEPT ![t] = 0]

\* lines 31-35 and 49-55: the top of the outer loop; latest.FrameNumber of a
\* nil latest is a nil dereference
CollectGetAhead(t) ==
    /\ pc[t] = "getAhead"
    /\ IF latest[t] = Nil
       THEN /\ pc' = [pc EXCEPT ![t] = "panic"]
            /\ UNCHANGED candidates
       ELSE LET found == GetAheadPeers(max(latest[t].FrameNumber,
                                           latestFrameReceived)) IN
            /\ candidates' = [candidates EXCEPT ![t] = found]
            /\ pc' = [pc EXCEPT ![t] =
                        IF found = {} THEN "done" ELSE "forCandidates"]
    /\ SyncLocalsGone(t)
    /\ UNCHANGED <<peerMap, uncooperativePeersMap, latestFrameReceived,
                   engineState, syncingStatus, inProverTrie, latest, syncErr,
                   channelOpen, enqueued, reel>>

\* (mutation of AfterCandidate: the rest of the pass is skipped)
AfterCandidateNextPass(remaining) == "getAhead"

\* where collect goes on after a candidate: the next one, or the next pass
AfterCandidate(remaining) ==
    IF remaining = {} THEN "getAhead" ELSE "forCandidates"

\* lines 36-41 and 276-285: the next candidate of the pass, skipped when it is
\* not ahead any more, else sync is entered with it
CollectNextCandidate(t) ==
    /\ pc[t] = "forCandidates"
    /\ \E candidate \in candidates[t] :
         /\ candidates' = [candidates EXCEPT ![t] = @ \ {candidate}]
         /\ IF latest[t] = Nil
            THEN /\ pc' = [pc EXCEPT ![t] = "panic"]
                 /\ SyncLocalsGone(t)
                 /\ UNCHANGED syncingStatus
            ELSE IF candidate.MaxFrame <= max(latest[t].FrameNumber,
                                              latestFrameReceived)
            THEN /\ pc' = [pc EXCEPT
                             ![t] = AfterCandidate(candidates'[t])]
                 /\ SyncLocalsGone(t)
                 /\ UNCHANGED syncingStatus
            ELSE /\ pc' = [pc EXCEPT ![t] = "syncOpen"]
                 /\ peerId' = [peerId EXCEPT ![t] = candidate.PeerID]
                 /\ maxFrame' = [maxFrame EXCEPT ![t] = candidate.MaxFrame]
                 /\ cooperative' = [cooperative EXCEPT ![t] = TRUE]
                 /\ returnedAt' = [returnedAt EXCEPT ![t] = 0]
                 /\ syncingStatus' = "Synchronizing"
    /\ UNCHANGED <<peerMap, uncooperativePeersMap, latestFrameReceived,
                   engineState, inProverTrie, latest, syncErr, channelOpen,
                   enqueued, reel>>

\* -------------------------------------------------------------------- sync
\* (mutation of ShouldDemote: the deferred function never demotes)
ShouldDemoteNever(coop) == FALSE

\* line 287: the deferred function demotes unless cooperative is still true
ShouldDemote(coop) == ~coop

\* (mutation of Closed: the deferred Close is missing)
ClosedNot(open) == open

\* lines 307-311: the deferred cc.Close(), registered once the channel is
\* open, has run
Closed(open) == FALSE

\* (mutation of StatusRestored: the deferred reset is missing)
StatusRestoredNot(status) == status

\* line 277: the deferred function has reset e.syncingStatus
StatusRestored(status) == "NotSyncing"

\* a return of sync: the deferred functions run (close the channel, demote
\* the peer when cooperative is false, reset the status) and collect assigns
\* latest, err (line 41) and goes on with its loop
SyncReturns(t, line, frame, err, coop, now) ==
    /\ returnedAt' = [returnedAt EXCEPT ![t] = line]
    /\ channelOpen' = [channelOpen EXCEPT ![t] = Closed(@)]
    /\ cooperative' = [cooperative EXCEPT ![t] = coop]
    /\ IF ShouldDemote(coop)
       THEN /\ uncooperativePeersMap' =
                 DemotedUncooperative(peerMap, uncooperativePeersMap,
                                      peerId[t], now)
            /\ peerMap' = DemotedPeerMap(peerMap, peerId[t])
       ELSE UNCHANGED <<peerMap, uncooperativePeersMap>>
    /\ syncingStatus' = StatusRestored(syncingStatus)
    /\ latest' = [latest EXCEPT ![t] = frame]
    /\ syncErr' = [syncErr EXCEPT ![t] = err]
    /\ pc' = [pc EXCEPT ![t] = AfterCandidate(candidates[t])]

\* lines 298-311: GetDirectChannel succeeds (opened) or fails
SyncOpen(t, opened, now) ==
    /\ pc[t] = "syncOpen"
    /\ IF opened
       THEN /\ channelOpen' = [channelOpen EXCEPT ![t] = TRUE]
            /\ pc' = [pc EXCEPT ![t] = "syncLoop"]
            /\ UNCHANGED <<peerMap, uncooperativePeersMap, syncingStatus,
                           latest, syncErr, cooperative, returnedAt>>
       ELSE SyncReturns(t, 305, latest[t], TRUE, FALSE, now)
    /\ UNCHANGED <<latestFrameReceived, engineState, inProverTrie, candidates,
                   peerId, maxFrame, enqueued, reel>>

SyncOpenChannel(t) ==
    \E opened \in BOOLEAN, now \in Times : SyncOpen(t, opened, now)

\* line 320 false: the engine is stopping, the loop is left, line 372
SyncStopping(t) ==
    /\ pc[t] = "syncLoop"
    /\ ~(engineState # "Stopping")
    /\ \E now \in Times :
         SyncReturns(t, 372, latest[t], FALSE, cooperative[t], now)
    /\ UNCHANGED <<latestFrameReceived, engineState, inProverTrie, candidates,
                   peerId, maxFrame, enqueued, reel>>

\* (mutation of InvalidResponse: the frame number is not compared)
InvalidResponseAnyNumber(response, lat) ==
    \/ response.kind = "noframe"
    \/ response.Timestamp < lat.Timestamp

\* (mutation of InvalidResponse: the timestamp is not compared)
InvalidResponseAnyTimestamp(response, lat) ==
    \/ response.kind = "noframe"
    \/ response.FrameNumber # lat.FrameNumber + 1

\* lines 344-346: the response carries no frame, or not the frame asked for
InvalidResponse(response, lat) ==
    \/ response.kind = "noframe"
    \/ response.FrameNumber # lat.FrameNumber + 1
    \/ response.Timestamp < lat.Timestamp

\* (mutation of CooperativeAfterFrame: a frame that does not verify counts
\* against the peer)
CooperativeAfterVerify(coop, response) ==
    coop /\ response.producerInTrie /\ response.verifies

\* lines 356-360: cooperative after the producer of the frame was looked up
CooperativeAfterFrame(coop, response) == coop /\ response.producerInTrie

\* (mutation of ReachedMax: the session stops only past the advertised head)
ReachedMaxPast(lat, mf) == lat.FrameNumber > mf

\* (mutation of ReachedMax: the session never stops at the advertised head)
ReachedMaxNever(lat, mf) == FALSE

\* line 368: the session has reached the candidate's advertised head
ReachedMax(lat, mf) == lat.FrameNumber >= mf

\* lines 320-371: one iteration of the loop: the request for latest+1 is
\* answered by response
SyncReceive(t, response, now) ==
    /\ pc[t] = "syncLoop"
    /\ engineState # "Stopping"
    /\ IF response.kind = "error"
       THEN /\ SyncReturns(t, 336, latest[t], TRUE, FALSE, now)
            /\ UNCHANGED reel
       ELSE IF response.kind = "nil"
       THEN /\ SyncReturns(t, 341, latest[t], FALSE, cooperative[t], now)
            /\ UNCHANGED reel
       ELSE IF InvalidResponse(response, latest[t])
       THEN /\ SyncReturns(t, 349, latest[t], FALSE, FALSE, now)
            /\ UNCHANGED reel
       ELSE LET coop == CooperativeAfterFrame(cooperative[t], response)
                frame == ClockFrame(response.FrameNumber, response.Timestamp)
            IN
            IF ~response.verifies
            THEN /\ SyncReturns(t, 364, Nil, TRUE, coop, now)
                 /\ UNCHANGED reel
            ELSE /\ reel' = [reel EXCEPT ![t] = Append(@, frame)]
                 /\ IF ReachedMax(frame, maxFrame[t])
                    THEN SyncReturns(t, 369, frame, FALSE, coop, now)
                    ELSE /\ latest' = [latest EXCEPT ![t] = frame]
                         /\ cooperative' = [cooperative EXCEPT ![t] = coop]
                         /\ UNCHANGED <<peerMap, uncooperativePeersMap,
                                        syncingStatus, syncErr, pc,
                                        channelOpen, returnedAt>>
    /\ UNCHANGED <<latestFrameReceived, engineState, inProverTrie, candidates,
                   peerId, maxFrame, enqueued>>

SyncRequest(t) ==
    \E response \in Responses, now \in Times : SyncReceive(t, response, now)

\* ------------------------------------------------------------------- prove
ProveInit ==
    /\ lastProven = 0
    /\ stagedTransactions = Nil
    /\ stagedTransactionsMx = 0
    /\ ppc = [t \in Provers |-> "idle"]
    /\ previousFrame = [t \in Provers |-> 0]
    /\ tries = [t \in Provers |-> "none"]
    /\ validTransactions = [t \in Provers |-> {}]
    /\ invalidTransactions = [t \in Provers |-> {}]
    /\ result = [t \in Provers |-> "none"]
    /\ overlapped = [t \in Provers |-> FALSE]
    /\ nextTx = 1
    /\ provenFrames = {}
    /\ partitioned = [x \in TxIds |-> 0]
    /\ discarded = [x \in TxIds |-> 0]

\* a &protobufs.TokenRequests{} with the given requests
TokenRequests(reqs) == [Requests |-> reqs]

\* the transactions of a staging buffer, none when it was never created
Staged(st) == IF st = Nil THEN {} ELSE {st.Requests[i] : i \in DOMAIN st.Requests}

\* a producer appends a transaction to the staging buffer under the mutex
StageTransaction ==
    /\ stagedTransactionsMx = 0
    /\ nextTx <= MaxTx
    /\ stagedTransactions' =
         TokenRequests(Append(IF stagedTransactions = Nil THEN <<>>
                              ELSE stagedTransactions.Requests, nextTx))
    /\ nextTx' = nextTx + 1
    /\ UNCHANGED <<lastProven, stagedTransactionsMx, ppc, previousFrame, tries,
                   validTransactions, invalidTransactions, result, overlapped, partitioned, discarded,
                   provenFrames>>

\* line 61: the round for this frame was proven before
AlreadyProven(proven, frameNumber) == proven >= frameNumber /\ proven # 0

\* a call that is under way
Running(u) == ppc[u] \notin {"idle", "returned"}

\* prove returns: its locals are gone, what it returned stays
ProveReturns(t, returned) ==
    /\ ppc' = [ppc EXCEPT ![t] = "returned"]
    /\ result' = [result EXCEPT ![t] = returned]
    /\ tries' = [tries EXCEPT ![t] = "none"]
    /\ validTransactions' = [validTransactions EXCEPT ![t] = {}]
    /\ invalidTransactions' = [invalidTransactions EXCEPT ![t] = {}]

\* lines 58-63: prove(previousFrame) is called and reads lastProven
ProveEnter(t) ==
    /\ ppc[t] \in {"idle", "returned"}
    /\ \E n \in FrameNumbers :
         /\ previousFrame' = [previousFrame EXCEPT ![t] = n]
         /\ overlapped' =
              [u \in Provers |->
                 IF u = t
                 THEN \E v \in Provers \ {t} :
                        Running(v) /\ previousFrame[v] = n
                 ELSE overlapped[u] \/ (Running(u) /\ previousFrame[u] = n)]
         /\ IF AlreadyProven(lastProven, n)
            THEN ProveReturns(t, "previousFrame")
            ELSE /\ ppc' = [ppc EXCEPT ![t] = "lock"]
                 /\ result' = [result EXCEPT ![t] = "none"]
                 /\ UNCHANGED <<tries, validTransactions,
                                invalidTransactions>>
    /\ UNCHANGED <<lastProven, stagedTransactions, stagedTransactionsMx,
                   nextTx, partitioned, discarded, provenFrames>>

\* (mutation of Locked: Lock() returns without taking the mutex)
LockedNot(holder, t) == holder

\* line 64: the holder of the mutex once Lock() has returned
Locked(holder, t) == t

\* line 64: e.stagedTransactionsMx.Lock()
ProveLock(t) ==
    /\ ppc[t] = "lock"
    /\ stagedTransactionsMx = 0
    /\ stagedTransactionsMx' = Locked(stagedTransactionsMx, t)
    /\ ppc' = [ppc EXCEPT ![t] = "materialize"]
    /\ UNCHANGED <<lastProven, stagedTransactions, previousFrame, tries,
                   validTransactions, invalidTransactions, result,
                   overlapped, nextTx, partitioned, discarded, provenFrames>>

\* (mutation of Unlocked: Unlock() leaves the mutex with its holder)
UnlockedNot(holder) == holder

\* lines 81, 103 and 113: the holder of the mutex once Unlock() has returned
Unlocked(holder) == 0

\* (mutation of ProveMaterialize: a failed materialization resets the buffer)
ProveMaterializeResetting(t) ==
    /\ ppc[t] = "materialize"
    /\ \E loaded \in BOOLEAN, materialized \in BOOLEAN :
         IF ~materialized
         THEN /\ stagedTransactionsMx' = Unlocked(stagedTransactionsMx)
              /\ stagedTransactions' = TokenRequests(<<>>)
              /\ ProveReturns(t, "error")
         ELSE /\ ppc' = [ppc EXCEPT ![t] = "apply"]
              /\ tries' = [tries EXCEPT
                             ![t] = IF loaded THEN "loaded" ELSE "failed"]
              /\ UNCHANGED <<stagedTransactionsMx, stagedTransactions,
                             result, validTransactions, invalidTransactions>>
    /\ UNCHANGED <<lastProven, previousFrame, overlapped, nextTx, partitioned,
                   discarded, provenFrames>>

\* lines 66-83: the tries are loaded, the error of the load is overwritten by
\* the one of MaterializeApplicationFromFrame, which alone is looked at
ProveMaterialize(t) ==
    /\ ppc[t] = "materialize"
    /\ \E loaded \in BOOLEAN, materialized \in BOOLEAN :
         IF ~materialized
         THEN /\ stagedTransactionsMx' = Unlocked(stagedTransactionsMx)
              /\ ProveReturns(t, "error")
         ELSE /\ ppc' = [ppc EXCEPT ![t] = "apply"]
              /\ tries' = [tries EXCEPT
                             ![t] = IF loaded THEN "loaded" ELSE "failed"]
              /\ UNCHANGED <<stagedTransactionsMx, result, validTransactions,
                             invalidTransactions>>
    /\ UNCHANGED <<lastProven, stagedTransactions, previousFrame, overlapped,
                   nextTx, partitioned, discarded, provenFrames>>

\* one more round has put each of these transactions somewhere
Counted(count, txs) ==
    [x \in TxIds |-> IF x \in txs THEN count[x] + 1 ELSE count[x]]

\* lines 85-100: ApplyTransitions fails, or splits the staged transactions
\* into the valid and the invalid ones
ProveApply(t) ==
    /\ ppc[t] = "apply"
    /\ LET staged == Staged(stagedTransactions) IN
       \/ /\ discarded' = Counted(discarded, staged)
          /\ ppc' = [ppc EXCEPT ![t] = "applyFailed"]
          /\ UNCHANGED <<validTransactions, invalidTransactions, partitioned>>
       \/ \E valid \in SUBSET staged :
            /\ validTransactions' = [validTransactions EXCEPT ![t] = valid]
            /\ invalidTransactions' =
                 [invalidTransactions EXCEPT ![t] = staged \ valid]
            /\ partitioned' =
                 Counted(Counted(partitioned, valid), staged \ valid)
            /\ ppc' = [ppc EXCEPT ![t] = "applied"]
            /\ UNCHANGED discarded
    /\ stagedTransactions' = IF stagedTransactions = Nil
                             THEN TokenRequests(<<>>)
                             ELSE stagedTransactions
    /\ UNCHANGED <<lastProven, stagedTransactionsMx, previousFrame, tries,
                   result, overlapped, nextTx, provenFrames>>

\* (mutation of StagingAfterRound: the buffer is left as it is)
StagingAfterRoundKept(st) == st

\* line 102 and line 112: the staging buffer after the round took it
StagingAfterRound(st) == TokenRequests(<<>>)

\* lines 101-113: the buffer is reset and the mutex released, after a failed
\* apply (prove returns the error) and after a successful one
ProveReset(t) ==
    /\ ppc[t] \in {"applyFailed", "applied"}
    /\ stagedTransactions' = StagingAfterRound(stagedTransactions)
    /\ stagedTransactionsMx' = Unlocked(stagedTransactionsMx)
    /\ IF ppc[t] = "applyFailed"
       THEN ProveReturns(t, "error")
       ELSE /\ ppc' = [ppc EXCEPT ![t] = "encode"]
            /\ UNCHANGED <<result, tries, validTransactions,
                           invalidTransactions>>
    /\ UNCHANGED <<lastProven, previousFrame, overlapped, nextTx, partitioned,
                   discarded, provenFrames>>

\* the steps of lines 115-173, in order: the output state is materialized,
\* marshalled and digested (115-155), CommitRaw (157-163), ProveRaw (166-173)
AfterStep(step) ==
    CASE step = "encode" -> "commit"
      [] step = "commit" -> "open"
      [] step = "open" -> "frameProve"

CryptoSteps == {"encode", "commit", "open"}

\* (mutation of ProveStep: the frame counts as proven when a step fails)
ProveStepRecording(t) ==
    /\ ppc[t] \in CryptoSteps
    /\ \/ /\ ppc' = [ppc EXCEPT ![t] = AfterStep(ppc[t])]
          /\ UNCHANGED <<result, tries, validTransactions,
                         invalidTransactions, lastProven>>
       \/ /\ ProveReturns(t, "error")
          /\ lastProven' = previousFrame[t]
    /\ UNCHANGED <<stagedTransactions, stagedTransactionsMx,
                   previousFrame, overlapped, nextTx, partitioned, discarded,
                   provenFrames>>

\* lines 115-173: a step succeeds, or fails and prove returns the error
ProveStep(t) ==
    /\ ppc[t] \in CryptoSteps
    /\ \/ /\ ppc' = [ppc EXCEPT ![t] = AfterStep(ppc[t])]
          /\ UNCHANGED <<result, tries, validTransactions,
                         invalidTransactions>>
       \/ ProveReturns(t, "error")
    /\ UNCHANGED <<lastProven, stagedTransactions, stagedTransactionsMx,
                   previousFrame, overlapped, nextTx, partitioned, discarded,
                   provenFrames>>

\* (mutation of ProvenAfter: the number of the new frame is recorded)
ProvenAfterNew(proven, frameNumber) == frameNumber + 1

\* (mutation of ProvenAfter: the proven frame is not recorded)
ProvenAfterStale(proven, frameNumber) == proven

\* line 205: what lastProven becomes after a frame was proven
ProvenAfter(proven, frameNumber) == frameNumber

\* lines 177-213: ProveDataClockFrame fails, or delivers the new frame, which
\* is recorded in lastProven and returned
ProveFrame(t) ==
    /\ ppc[t] = "frameProve"
    /\ \/ /\ ProveReturns(t, "error")
          /\ UNCHANGED <<lastProven, provenFrames>>
       \/ /\ ProveReturns(t, "newFrame")
          /\ lastProven' = ProvenAfter(lastProven, previousFrame[t])
          /\ provenFrames' = provenFrames \cup {previousFrame[t] + 1}
    /\ UNCHANGED <<stagedTransactions, stagedTransactionsMx, previousFrame,
                   overlapped, nextTx, partitioned, discarded>>

ProveNextOf(callers) ==
    \/ StageTransaction
    \/ \E t \in callers :
         \/ ProveEnter(t)
         \/ ProveLock(t)
         \/ ProveMaterialize(t)
         \/ ProveApply(t)
         \/ ProveReset(t)
         \/ ProveStep(t)
         \/ ProveFrame(t)

\* ------------------------------------------------------------ peer scores
\* int64 arithmetic: the sum wraps around
ScoreModulus == 2 ^ ScoreBits
Int64(x) ==
    ((x + ScoreModulus \div 2) % ScoreModulus) - ScoreModulus \div 2

\* the int64 values, and the deltas AddPeerScore is called with
ScoreValues == (0 - ScoreModulus \div 2)..(ScoreModulus \div 2 - 1)
ScoreDeltas == {0 - 1, 1}

\* the calls of GetPeerScore, SetPeerScore and AddPeerScore
ScoreOps ==
    [kind : {"Get"}, peer : Peers, arg : {0}]
      \cup [kind : {"Set"}, peer : Peers, arg : ScoreValues]
      \cup [kind : {"Add"}, peer : Peers, arg : ScoreDeltas]

NoScoreOp == [kind |-> "none", peer |-> 1, arg |-> 0]
NothingRead == [ok |-> FALSE, score |-> 0]

\* b.peerScore[string(peerId)]: the zero value when the key is missing
ScoreOf(ps, p) == IF p \in DOMAIN ps THEN ps[p] ELSE 0

\* b.peerScore[string(peerId)] = score
ScoreStored(ps, p, score) ==
    [q \in DOMAIN ps \cup {p} |-> IF q = p THEN score ELSE ps[q]]

ScoreInit ==
    /\ peerScore = <<>>
    /\ peerScoreMx = 0
    /\ spc = [t \in Scorers |-> "idle"]
    /\ scoreOp = [t \in Scorers |-> NoScoreOp]
    /\ scoreRead = [t \in Scorers |-> NothingRead]
    /\ linearScore = [p \in Peers |-> 0]
    /\ linearResult = [t \in Scorers |-> 0]

\* one of the three functions is called
ScoreCall(t) ==
    /\ spc[t] = "idle"
    /\ \E op \in ScoreOps : scoreOp' = [scoreOp EXCEPT ![t] = op]
    /\ spc' = [spc EXCEPT ![t] = "lock"]
    /\ UNCHANGED <<peerScore, peerScoreMx, scoreRead, linearScore,
                   linearResult>>

\* the counter of the peer once the call has taken effect
LinearAfter(score, op) ==
    CASE op.kind = "Get" -> score
      [] op.kind = "Set" -> op.arg
      [] op.kind = "Add" -> Int64(score + op.arg)

\* (mutation of ScoreLocked: Lock() returns without taking the mutex)
ScoreLockedNot(holder, t) == holder

\* lines 770, 777, 783: the holder of the mutex once Lock() has returned
ScoreLocked(holder, t) == t

\* lines 770, 777, 783: b.peerScoreMx.Lock(); the call takes effect here if
\* the calls are taken one at a time in the order of their Lock()
ScoreLock(t) ==
    /\ spc[t] = "lock"
    /\ peerScoreMx = 0
    /\ peerScoreMx' = ScoreLocked(peerScoreMx, t)
    /\ spc' = [spc EXCEPT ![t] = "locked"]
    /\ linearScore' =
         [linearScore EXCEPT
            ![scoreOp[t].peer] = LinearAfter(@, scoreOp[t])]
    /\ linearResult' =
         [linearResult EXCEPT
            ![t] = IF scoreOp[t].kind = "Get"
                   THEN linearScore[scoreOp[t].peer] ELSE @]
    /\ UNCHANGED <<peerScore, scoreOp, scoreRead>>

\* lines 771, 778, 784: the map is read (GetPeerScore, AddPeerScore) or
\* written (SetPeerScore)
ScoreAccess(t) ==
    /\ spc[t] = "locked"
    /\ LET op == scoreOp[t] IN
       IF op.kind = "Set"
       THEN /\ peerScore' = ScoreStored(peerScore, op.peer, op.arg)
            /\ spc' = [spc EXCEPT ![t] = "unlock"]
            /\ UNCHANGED scoreRead
       ELSE /\ scoreRead' =
                 [scoreRead EXCEPT
                    ![t] = [ok |-> op.peer \in DOMAIN peerScore,
                            score |-> ScoreOf(peerScore, op.peer)]]
            /\ spc' = [spc EXCEPT
                         ![t] = IF op.kind = "Add" THEN "write" ELSE "unlock"]
            /\ UNCHANGED peerScore
    /\ UNCHANGED <<peerScoreMx, scoreOp, linearScore, linearResult>>

\* lines 785 and 787: what AddPeerScore stores
ScoreAdded(read, scoreDelta) ==
    IF ~read.ok THEN scoreDelta ELSE Int64(read.score + scoreDelta)

\* lines 785 and 787: AddPeerScore writes the map
ScoreWrite(t) ==
    /\ spc[t] = "write"
    /\ peerScore' = ScoreStored(peerScore, scoreOp[t].peer,
                                ScoreAdded(scoreRead[t], scoreOp[t].arg))
    /\ spc' = [spc EXCEPT ![t] = "unlock"]
    /\ UNCHANGED <<peerScoreMx, scoreOp, scoreRead, linearScore,
                   linearResult>>

\* lines 772-773, 779, 789: Unlock(), the call returns (GetPeerScore with
\* the score it read); its locals are gone
ScoreUnlock(t) ==
    /\ spc[t] = "unlock"
    /\ peerScoreMx' = 0
    /\ spc' = [spc EXCEPT ![t] = "idle"]
    /\ scoreOp' = [scoreOp EXCEPT ![t] = NoScoreOp]
    /\ scoreRead' = [scoreRead EXCEPT ![t] = NothingRead]
    /\ linearResult' = [linearResult EXCEPT ![t] = 0]
    /\ UNCHANGED <<peerScore, linearScore>>

ScoreNext ==
    /\ \E t \in Scorers :
         \/ ScoreCall(t)
         \/ ScoreLock(t)
         \/ ScoreAccess(t)
         \/ ScoreWrite(t)
         \/ ScoreUnlock(t)
    /\ UNCHANGED <<syncVars, proveVars>>

\* ---------------------------------------------------------- specification
SyncNext ==
    \/ \E p \in Peers : UpsertPeer(p)
    \/ ReceiveFrame
    \/ Stop
    \/ \E t \in {1} :
         \/ CollectStart(t)
         \/ CollectGetAhead(t)
         \/ CollectNextCandidate(t)
         \/ SyncOpenChannel(t)
         \/ SyncStopping(t)
         \/ SyncRequest(t)

Init == SyncInit /\ ProveInit /\ ScoreInit

Next == SyncNext /\ UNCHANGED <<proveVars, scoreVars>>

\* collect and sync against the peer registry
Spec == Init /\ [][Next]_vars

\* an engine that proves frames is in the prover trie
ProveInit0 == Init /\ inProverTrie = TRUE

ProveNext == ProveNextOf(Provers) /\ UNCHANGED <<syncVars, scoreVars>>

\* prove called from two threads, and a producer staging transactions
ProveSpec == ProveInit0 /\ [][ProveNext]_vars

ProveAloneNext == ProveNextOf({1}) /\ UNCHANGED <<syncVars, scoreVars>>

\* prove called by one thread, one call after the other
ProveAloneSpec == ProveInit0 /\ [][ProveAloneNext]_vars

\* ------------------------------------------- collect against honest peers
\* the registry holds every peer with a current version and some head
HonestPeerMaps ==
    {[p \in Peers |-> PeerInfo(p, mf[p], MinimumVersionCutoff + 1,
                                 MinimumVersion)] :
        mf \in [Peers -> FrameNumbers]}

HonestPeerInit ==
    /\ peerMap \in HonestPeerMaps
    /\ uncooperativePeersMap = <<>>
    /\ latestFrameReceived \in FrameNumbers
    /\ engineState = "Collecting"
    /\ syncingStatus = "NotSyncing"
    /\ inProverTrie \in BOOLEAN
    /\ pc = [t \in Collectors |-> "idle"]
    /\ latest = [t \in Collectors |-> Nil]
    /\ syncErr = [t \in Collectors |-> FALSE]
    /\ candidates = [t \in Collectors |-> {}]
    /\ peerId = [t \in Collectors |-> 1]
    /\ maxFrame = [t \in Collectors |-> 0]
    /\ cooperative = [t \in Collectors |-> TRUE]
    /\ channelOpen = [t \in Collectors |-> FALSE]
    /\ enqueued = [t \in Collectors |-> Nil]
    /\ reel = [t \in Collectors |-> <<>>]
    /\ returnedAt = [t \in Collectors |-> 0]
    /\ ProveInit
    /\ ScoreInit

\* the answer of an honest peer to the request for the frame after lat: that
\* frame, not older than lat, by a producer of the prover trie, verifying
HonestFrame(lat, ts) ==
    [kind |-> "frame", FrameNumber |-> lat.FrameNumber + 1, Timestamp |-> ts,
     producerInTrie |-> TRUE, verifies |-> TRUE]

\* the channel to an honest peer opens
HonestOpen(t) == \E now \in Times : SyncOpen(t, TRUE, now)

\* the request is answered by an honest peer
HonestAnswer(t) ==
    /\ pc[t] = "syncLoop"
    /\ \E now \in Times, ts \in Times :
         /\ ts >= latest[t].Timestamp
         /\ SyncReceive(t, HonestFrame(latest[t], ts), now)

\* the steps of collect calls by these callers, the peers honest
HonestNextOf(callers) ==
    \E t \in callers :
        \/ CollectStart(t)
        \/ CollectGetAhead(t)
        \/ CollectNextCandidate(t)
        \/ HonestOpen(t)
        \/ HonestAnswer(t)

HonestPeerNext == HonestNextOf({1}) /\ UNCHANGED <<proveVars, scoreVars>>

\* collect on an engine that is not stopping, every peer honest and
\* answering, the registry and the high-water mark left alone meanwhile; the
\* goroutine of collect keeps running and every request is answered
HonestPeerSpec ==
    HonestPeerInit /\ [][HonestPeerNext]_vars /\ WF_vars(HonestPeerNext)

\* ------------------------------------- GetAheadPeers over any registry
\* an entry of a peer map: any head, a timestamp at or after the cutoff, a
\* version below or at the minimum
AnyPeerInfo(p) ==
    {PeerInfo(p, mf, ts, ver) :
        mf \in FrameNumbers,
        ts \in {MinimumVersionCutoff, MinimumVersionCutoff + 1},
        ver \in {MinimumVersion - 1, MinimumVersion}}

\* the peer maps over some of the peers
AnyPeerMaps ==
    UNION {{pm \in [present -> UNION {AnyPeerInfo(p) : p \in Peers}] :
               \A p \in present : pm[p].peerId = p} :
           present \in SUBSET Peers}

\* the uncooperative maps: which peers are keys is all GetAheadPeers reads
AnyUncooperativeMaps ==
    {[p \in present |-> PeerInfo(p, 1, MinimumVersionCutoff + 1,
                                   MinimumVersion)] :
        present \in SUBSET Peers}

RegistryInit ==
    /\ peerMap \in AnyPeerMaps
    /\ uncooperativePeersMap \in AnyUncooperativeMaps
    /\ latestFrameReceived \in FrameNumbers
    /\ engineState = "Collecting"
    /\ syncingStatus = "NotSyncing"
    /\ inProverTrie \in BOOLEAN
    /\ pc = [t \in Collectors |-> "idle"]
    /\ latest = [t \in Collectors |-> Nil]
    /\ syncErr = [t \in Collectors |-> FALSE]
    /\ candidates = [t \in Collectors |-> {}]
    /\ peerId = [t \in Collectors |-> 1]
    /\ maxFrame = [t \in Collectors |-> 0]
    /\ cooperative = [t \in Collectors |-> TRUE]
    /\ channelOpen = [t \in Collectors |-> FALSE]
    /\ enqueued = [t \in Collectors |-> Nil]
    /\ reel = [t \in Collectors |-> <<>>]
    /\ returnedAt = [t \in Collectors |-> 0]
    /\ ProveInit
    /\ ScoreInit

\* the passes of collect ask GetAheadPeers; the peers asked answer honestly
RegistryNext == HonestPeerNext

\* GetAheadPeers called by collect, whatever the two maps hold
RegistrySpec == RegistryInit /\ [][RegistryNext]_vars

\* the steps a running collect call takes by itself
CollectRuns(t) ==
    /\ \/ CollectGetAhead(t)
       \/ CollectNextCandidate(t)
       \/ HonestOpen(t)
       \/ HonestAnswer(t)
       \/ SyncStopping(t)
    /\ UNCHANGED <<proveVars, scoreVars>>

StoppingNext ==
    \/ Stop /\ UNCHANGED <<proveVars, scoreVars>>
    \/ \E t \in {1} :
         \/ CollectStart(t) /\ UNCHANGED <<proveVars, scoreVars>>
         \/ CollectRuns(t)

\* collect while the engine is told to stop, the peers honest and answering;
\* the goroutine of a collect call keeps running until the call returns
StoppingSpec ==
    /\ HonestPeerInit
    /\ [][StoppingNext]_vars
    /\ \A t \in {1} : WF_vars(CollectRuns(t))

\* the channel to a peer cannot be opened
OpenFails(t) == \E now \in Times : SyncOpen(t, FALSE, now)

ConcurrentNext ==
    /\ \/ HonestNextOf(Collectors)
       \/ \E t \in Collectors : OpenFails(t)
    /\ UNCHANGED <<proveVars, scoreVars>>

\* collect called from two threads at once; a peer that can be reached
\* answers honestly
ConcurrentSpec == HonestPeerInit /\ [][ConcurrentNext]_vars

\* the steps of a collect call whose peers answer in any way
UnreliablePeerNext ==
    /\ \E t \in {1} :
         \/ CollectStart(t)
         \/ CollectGetAhead(t)
         \/ CollectNextCandidate(t)
         \/ SyncOpenChannel(t)
         \/ SyncRequest(t)
    /\ UNCHANGED <<proveVars, scoreVars>>

\* collect on an engine that is not stopping, the registry and the high-water
\* mark left alone meanwhile, the peers answering as they like; the goroutine
\* of collect keeps running and every request gets some answer
UnreliablePeerSpec ==
    HonestPeerInit /\ [][UnreliablePeerNext]_vars /\ WF_vars(UnreliablePeerNext)

\* the score functions called from two goroutines
ScoreSpec == ProveInit0 /\ [][ScoreNext]_vars

\* ------------------------------------------------------------------ claims

\* C1: the frames one collect call passes to the time reel's Insert form a
\* gap-free increasing run from the frame it was called with: the i-th
\* inserted frame has the number of the enqueued frame plus i (one more than
\* the latest held before it) and a timestamp not smaller than that of the
\* frame before it.
InsertedRunIsGapFree ==
    \A t \in Collectors :
        \A i \in 1..Len(reel[t]) :
            /\ reel[t][i].FrameNumber = enqueued[t].FrameNumber + i
            /\ reel[t][i].Timestamp >=
                 (IF i = 1 THEN enqueued[t].Timestamp
                  ELSE reel[t][i - 1].Timestamp)

\* a collect call has inserted two frames, the second with a later timestamp
TwoFramesInserted ==
    \E t \in Collectors :
        /\ Len(reel[t]) = 2
        /\ reel[t][2].Timestamp > reel[t][1].Timestamp

\* the peers GetAheadPeers returns for some head
AheadPeerIds == {c.PeerID : c \in UNION {GetAheadPeers(h) : h \in FrameNumbers}}

\* sync returns for collector t with cooperative false
SyncDemotes(t) ==
    /\ pc[t] \in {"syncOpen", "syncLoop"}
    /\ pc'[t] \notin {"syncOpen", "syncLoop"}
    /\ ~cooperative'[t]

\* C2: once sync has demoted a peer (returned with cooperative false), no
\* GetAheadPeers call, for any head, returns the peer, and this stays so over
\* every step that is not an upsert of the peer.
DemotedPeerIsNotAhead ==
    [][\A p \in Peers :
         (\/ \E t \in Collectors : SyncDemotes(t) /\ peerId[t] = p
          \/ (p \notin AheadPeerIds /\ ~UpsertPeer(p)))
         => p \notin AheadPeerIds']_vars

\* a peer that advertises frames ahead of genesis was demoted and the next
\* pass of the same collect call is about to ask for the ahead peers
DemotedPeerBeforeNextPass ==
    \E t \in Collectors :
        /\ pc[t] = "getAhead"
        /\ ~cooperative[t]
        /\ peerId[t] \in DOMAIN uncooperativePeersMap
        /\ latest[t] # Nil
        /\ uncooperativePeersMap[peerId[t]].maxFrame > latest[t].FrameNumber
        /\ ~inProverTrie

\* the peer of collector t's session is demoted by the step
PeerMoved(t) ==
    /\ peerId[t] \in DOMAIN peerMap
    /\ peerId[t] \notin DOMAIN peerMap'
    /\ peerId[t] \in DOMAIN uncooperativePeersMap'

\* the peer of collector t's session stays where it was
PeerKept(t) ==
    /\ peerId[t] \in DOMAIN peerMap'
    /\ peerId[t] \notin DOMAIN uncooperativePeersMap'
    /\ peerMap' = peerMap
    /\ uncooperativePeersMap' = uncooperativePeersMap

\* collector t waits for the answer to a request
Requesting(t) == pc[t] = "syncLoop" /\ engineState # "Stopping"

\* the response carries a frame that is not the one asked for
NotTheFrameAskedFor(response, lat) ==
    \/ response.FrameNumber # lat.FrameNumber + 1
    \/ response.Timestamp < lat.Timestamp

\* C7: when the request for latest+1 is answered by a frame with another
\* number, or with a timestamp before latest's, sync inserts nothing, returns
\* the latest it held without an error, and the peer moves from the
\* cooperative to the uncooperative map; when no peer is ahead after that,
\* the next pass of collect finds no candidate and collect returns.
WrongFrameDemotesAndReturns ==
    [][\A t \in Collectors :
         /\ \A response \in FrameResponses, now \in Times :
              (/\ Requesting(t)
               /\ NotTheFrameAskedFor(response, latest[t])
               /\ SyncReceive(t, response, now))
              => /\ reel' = reel
                 /\ latest'[t] = latest[t]
                 /\ ~syncErr'[t]
                 /\ returnedAt'[t] = 349
                 /\ pc'[t] \in {"getAhead", "forCandidates"}
                 /\ PeerMoved(t)
                 /\ uncooperativePeersMap'[peerId[t]].timestamp = now
         /\ (/\ returnedAt[t] = 349
             /\ CollectGetAhead(t)
             /\ GetAheadPeers(max(latest[t].FrameNumber,
                                  latestFrameReceived)) = {})
            => /\ pc'[t] = "done"
               /\ latest'[t] = latest[t]]_vars

\* sync has returned on a frame that was not the one asked for, after one
\* frame was inserted; the peer is demoted and no other peer is ahead
WrongFrameFromOnlyAheadPeer ==
    \E t \in Collectors :
        /\ pc[t] = "getAhead"
        /\ returnedAt[t] = 349
        /\ Len(reel[t]) = 1
        /\ latest[t] = reel[t][1]
        /\ ~inProverTrie
        /\ peerId[t] \in DOMAIN uncooperativePeersMap
        /\ uncooperativePeersMap[peerId[t]].maxFrame > latest[t].FrameNumber
        /\ GetAheadPeers(max(latest[t].FrameNumber, latestFrameReceived)) = {}

\* C8: when the request fails with a transport error (the expiry of the
\* deadline included), sync inserts nothing and returns the latest it held
\* with an error, the peer is demoted, and collect goes on with the next
\* candidate of the pass, or with the next pass when none is left.
TransportErrorDemotesAndGoesOn ==
    [][\A t \in Collectors, now \in Times :
         (Requesting(t) /\ SyncReceive(t, RpcError, now))
         => /\ reel' = reel
            /\ latest'[t] = latest[t]
            /\ syncErr'[t]
            /\ returnedAt'[t] = 336
            /\ PeerMoved(t)
            /\ pc'[t] = IF candidates[t] # {} THEN "forCandidates"
                        ELSE "getAhead"]_vars

\* a request has failed, the peer is demoted and the next candidate of the
\* pass is about to be tried
NextCandidateAfterTransportError ==
    \E t \in Collectors :
        /\ pc[t] = "forCandidates"
        /\ returnedAt[t] = 336
        /\ syncErr[t]
        /\ peerId[t] \in DOMAIN uncooperativePeersMap
        /\ \E c \in candidates[t] : c.PeerID \in DOMAIN peerMap

\* the response carries the frame asked for, and it does not verify
UnverifiedFrame(response, lat) ==
    /\ ~NotTheFrameAskedFor(response, lat)
    /\ ~response.verifies

PeerInAtMostOneMap ==
    DOMAIN peerMap \cap DOMAIN uncooperativePeersMap = {}

\* one peer is cooperative and another was demoted
OneCooperativeOneDemoted ==
    /\ DOMAIN peerMap # {}
    /\ DOMAIN uncooperativePeersMap # {}

\* prover t, whose last call proved a new frame, is called again with the
\* same previous frame
ProvesAgain(t) ==
    /\ ppc[t] = "returned"
    /\ result[t] = "newFrame"
    /\ ProveEnter(t)
    /\ previousFrame'[t] = previousFrame[t]

\* the call returns the previous frame at once: no round is run
ShortCircuits(t) ==
    /\ ppc'[t] = "returned"
    /\ result'[t] = "previousFrame"
    /\ lastProven' = lastProven
    /\ stagedTransactions' = stagedTransactions

\* C3 as stated: for every previous frame, the genesis frame included, a
\* second prove of the same frame after a successful one returns the previous
\* frame and proves nothing.
SecondProveShortCircuits ==
    [][\A t \in Provers : ProvesAgain(t) => ShortCircuits(t)]_vars

\* C3: for every previous frame above genesis, a second prove of the same
\* frame after a successful one returns the previous frame and proves
\* nothing.
SecondProveAboveGenesisShortCircuits ==
    [][\A t \in Provers :
         (ProvesAgain(t) /\ previousFrame[t] > 0) => ShortCircuits(t)]_vars

\* a frame above genesis was proven and a later call with it has returned it
ProvenFrameReturnedAgain ==
    \E t \in Provers :
        /\ ppc[t] = "returned"
        /\ result[t] = "previousFrame"
        /\ previousFrame[t] > 0
        /\ lastProven = previousFrame[t]

\* C4: of two calls of prove that run at the same time with the same
\* previous frame, at most one returns a new frame (stated for the frames
\* above genesis, which a call proves once when the calls come one after the
\* other).
ConcurrentProvesYieldOneFrame ==
    \A t, u \in Provers :
        (/\ t # u
         /\ overlapped[t] /\ overlapped[u]
         /\ previousFrame[t] = previousFrame[u]
         /\ previousFrame[t] > 0
         /\ ppc[t] = "returned" /\ ppc[u] = "returned")
        => ~(result[t] = "newFrame" /\ result[u] = "newFrame")

\* the transactions staged so far
StagedSoFar == 1..(nextTx - 1)

\* in how many places transaction x is: the staging buffer, and each round
\* that put it in its valid or its invalid transactions
Places(x) ==
    (IF x \in Staged(stagedTransactions) THEN 1 ELSE 0) + partitioned[x]

\* C5: whenever the staging mutex is free, every transaction a producer has
\* staged that was not dropped by a round whose apply failed is in exactly
\* one place: the valid or invalid transactions of one round, or the staging
\* buffer left for the next round; and a round's valid and invalid
\* transactions are disjoint.
StagedTransactionInOnePlace ==
    /\ stagedTransactionsMx = 0 =>
         \A x \in StagedSoFar : discarded[x] = 0 => Places(x) = 1
    /\ \A t \in Provers : validTransactions[t] \cap invalidTransactions[t] = {}

\* a producer staged a transaction while a round was past its apply, and the
\* round before took the first transaction: one is in a round's partition,
\* the other waits in the staging buffer, the mutex is free
OneTakenOneLeftForNextRound ==
    /\ stagedTransactionsMx = 0
    /\ \E t \in Provers : ppc[t] \in CryptoSteps \cup {"frameProve"}
    /\ partitioned[1] = 1
    /\ 1 \notin Staged(stagedTransactions)
    /\ 2 \in Staged(stagedTransactions)
    /\ partitioned[2] = 0

\* the cooperative peers that advertise a head above frame number n
AdvertisingAbove(n) == {p \in DOMAIN peerMap : peerMap[p].maxFrame > n}

\* collect was called on a node outside the prover trie and peer p, with
\* head M, is the only peer ahead of the frame collect was called with
OnlyPeerAhead(t, p, M) ==
    /\ ~inProverTrie
    /\ enqueued[t] # Nil
    /\ AdvertisingAbove(enqueued[t].FrameNumber) = {p}
    /\ p \notin DOMAIN uncooperativePeersMap
    /\ peerMap[p].maxFrame = M

\* collect has returned frame M after inserts for the frames after the one
\* it was called with, up to M, in that order, and nothing else
ReturnedWithRun(t, M) ==
    /\ latest[t] # Nil
    /\ latest[t].FrameNumber = M
    /\ Len(reel[t]) = M - enqueued[t].FrameNumber
    /\ \A i \in 1..Len(reel[t]) :
         reel[t][i].FrameNumber = enqueued[t].FrameNumber + i

\* C6 as stated: with the only ahead peer advertising M above latest's
\* number and answering honestly, collect terminates, and what it returns is
\* frame M after inserts for latest+1, ..., M.
CollectReachesAdvertisedHead ==
    \A t \in Collectors : \A p \in Peers : \A M \in FrameNumbers :
        /\ [](pc[t] = "done" /\ OnlyPeerAhead(t, p, M)
              => ReturnedWithRun(t, M))
        /\ (pc[t] = "getAhead" /\ OnlyPeerAhead(t, p, M)) ~> (pc[t] = "done")

\* C6: the same, provided M is also above the high-water mark of the frames
\* the engine has heard of (latestFrameReceived), which GetAheadPeers is
\* asked with.
CollectReachesHeadAboveHighWaterMark ==
    \A t \in Collectors : \A p \in Peers : \A M \in FrameNumbers :
        /\ [](pc[t] = "done" /\ OnlyPeerAhead(t, p, M)
                /\ M > latestFrameReceived
              => ReturnedWithRun(t, M))
        /\ (pc[t] = "getAhead" /\ OnlyPeerAhead(t, p, M)
               /\ M > latestFrameReceived) ~> (pc[t] = "done")

\* collect, called with the genesis frame, has returned frame 2 of the only
\* ahead peer after two inserts
TwoFramesPulledFromOnlyPeer ==
    \E t \in Collectors : \E p \in Peers :
        /\ pc[t] = "done"
        /\ OnlyPeerAhead(t, p, 2)
        /\ 2 > latestFrameReceived
        /\ enqueued[t].FrameNumber = 0
        /\ ReturnedWithRun(t, 2)

\* the peers of the cooperative map with a head above h, not demoted, with a
\* timestamp after the cutoff and a version that is not below the minimum
Qualified(h) ==
    {p \in DOMAIN peerMap :
        /\ peerMap[p].maxFrame > h
        /\ p \notin DOMAIN uncooperativePeersMap
        /\ peerMap[p].timestamp > MinimumVersionCutoff
        /\ peerMap[p].version >= MinimumVersion}

\* C11: on a node outside the prover trie, whatever the two maps hold and
\* for every head h, GetAheadPeers(h) returns the qualified peers and no
\* other, each once, with the head it advertises.
GetAheadPeersReturnsQualified ==
    ~inProverTrie =>
      \A h \in FrameNumbers :
        \A order \in SampleOrders(GetAheadPeers(h)) :
          /\ {order[i].PeerID : i \in DOMAIN order} = Qualified(h)
          /\ Cardinality(DOMAIN order) = Cardinality(Qualified(h))
          /\ \A i \in DOMAIN order :
               order[i].MaxFrame = peerMap[order[i].PeerID].maxFrame

\* a pass of collect got one candidate from GetAheadPeers while another
\* peer of the cooperative map, with a head above the local one, was left
\* out as a key of the uncooperative map
DemotedPeerLeftOut ==
    \E t \in Collectors :
        /\ pc[t] = "forCandidates"
        /\ ~inProverTrie
        /\ Cardinality(candidates[t]) = 1
        /\ \E q \in DOMAIN peerMap \cap DOMAIN uncooperativePeersMap :
             /\ peerMap[q].maxFrame >
                  max(latest[t].FrameNumber, latestFrameReceived)
             /\ peerMap[q].timestamp > MinimumVersionCutoff
             /\ peerMap[q].version >= MinimumVersion

\* C13: for every head h for which GetAheadPeers finds candidates, the
\* weight of a candidate is (max_frame - h) over the largest such difference
\* among the candidates: the divisor is not zero, every weight is above 0
\* and at most 1, and a candidate with the largest head has weight 1.
WeightsAreNormalised ==
    \A h \in FrameNumbers :
      LET cands == GetAheadPeers(h)
          w == Weights(cands, h)
      IN \A c \in cands :
           /\ w[c].den > 0
           /\ w[c].num = c.MaxFrame - h
           /\ \A d \in cands : w[c].den >= d.MaxFrame - h
           /\ \E d \in cands : w[c].den = d.MaxFrame - h
           /\ 0 < w[c].num /\ w[c].num <= w[c].den
           /\ (\A d \in cands : c.MaxFrame >= d.MaxFrame)
                => w[c].num = w[c].den

\* a pass of collect got two candidates with different heads: one has
\* weight 1, the other a weight below 1
TwoCandidatesOfDifferentWeight ==
    \E t \in Collectors :
        /\ pc[t] = "forCandidates"
        /\ \E c, d \in candidates[t] : c.MaxFrame < d.MaxFrame
        /\ candidates[t] =
             GetAheadPeers(max(latest[t].FrameNumber, latestFrameReceived))

\* C12: on a node of the prover trie GetAheadPeers returns nothing for any
\* head, whatever the two maps hold, so a collect call never has a
\* candidate, never enters sync (no channel is opened, no request is under
\* way), inserts no frame, and returns the frame it was called with.
LeaderCollectsNothing ==
    inProverTrie =>
      /\ \A h \in FrameNumbers : GetAheadPeers(h) = {}
      /\ syncingStatus = "NotSyncing"
      /\ \A t \in Collectors :
           /\ pc[t] \in {"idle", "getAhead", "done"}
           /\ candidates[t] = {}
           /\ ~channelOpen[t]
           /\ reel[t] = <<>>
           /\ pc[t] = "done" => latest[t] = enqueued[t]

\* collect has returned on a node of the prover trie although a current,
\* cooperative peer advertises a head above the local one
LeaderReturnedDespiteAheadPeer ==
    \E t \in Collectors :
        /\ inProverTrie
        /\ pc[t] = "done"
        /\ Qualified(max(enqueued[t].FrameNumber, latestFrameReceived)) # {}

\* no score call is between its Lock() and its Unlock()
NoScoreCallInside == \A t \in Scorers : spc[t] \in {"idle", "lock"}

\* C14: under every interleaving of GetPeerScore, SetPeerScore and
\* AddPeerScore calls, whenever no call holds the mutex the score of every
\* peer is what the calls give when taken one at a time in the order of
\* their Lock(): the last value set plus the deltas added since, in int64
\* arithmetic, 0 for a peer never heard of; and a GetPeerScore call returns
\* the score of its peer at its place in that order. A call for one peer
\* leaves the counter of the other alone.
ScoresAreLinearizable ==
    /\ NoScoreCallInside =>
         \A p \in Peers : ScoreOf(peerScore, p) = linearScore[p]
    /\ \A t \in Scorers :
         (spc[t] = "unlock" /\ scoreOp[t].kind = "Get")
         => scoreRead[t].score = linearResult[t]

\* an AddPeerScore call is about to write the score of a peer that was set
\* before, while another AddPeerScore call for the same peer waits for the
\* mutex
AddWaitsForAdd ==
    \E t, u \in Scorers :
        /\ spc[t] = "write"
        /\ scoreRead[t].ok
        /\ spc[u] = "lock"
        /\ scoreOp[u].kind = "Add"
        /\ scoreOp[u].peer = scoreOp[t].peer

\* C15: once the engine is stopping, a running collect call returns in the
\* end, also when cooperative peers ahead of the local head remain.
StoppingCollectReturns ==
    \A t \in Collectors :
        (engineState = "Stopping" /\ pc[t] \notin {"idle", "done"})
          ~> (pc[t] = "done")

\* prover t returns a new frame by the step
ReturnsNewFrame(t) ==
    /\ ppc[t] = "frameProve"
    /\ ppc'[t] = "returned"
    /\ result'[t] = "newFrame"

\* C16: lastProven changes only by the step that returns a new frame, so a
\* call of prove that returns an error, at whatever step, leaves it as it was
\* before the call; and a call with the same previous frame that follows one
\* that returned an error is not short-circuited: it goes on to the mutex.
FailedProveKeepsLastProven ==
    [][\A t \in Provers :
         /\ (Running(t) /\ ~ReturnsNewFrame(t)) => lastProven' = lastProven
         /\ (/\ ppc[t] = "returned"
             /\ result[t] = "error"
             /\ ProveEnter(t)
             /\ previousFrame'[t] = previousFrame[t])
            => ppc'[t] = "lock"]_vars

\* frame 1 was proven, and the call for frame 2 has returned an error
ProveFailedAfterAnotherProven ==
    \E t \in Provers :
        /\ ppc[t] = "returned"
        /\ result[t] = "error"
        /\ previousFrame[t] = 2
        /\ lastProven = 1

\* the session of collector t is over after the step: sync has returned
SessionEnds(t) == pc'[t] \notin {"syncOpen", "syncLoop"}

\* C17: when the request is answered without a transport error by a nil
\* response, sync returns (no further frame is requested in the session) and
\* the peer is in the uncooperative map, not in the cooperative one.
NilResponseDemotes ==
    [][\A t \in Collectors, now \in Times :
         (Requesting(t) /\ SyncReceive(t, NilResponse, now))
         => /\ SessionEnds(t)
            /\ peerId[t] \in DOMAIN uncooperativePeersMap'
            /\ peerId[t] \notin DOMAIN peerMap']_vars

\* C18: when the request is answered by the frame asked for and its producer
\* is not in the prover trie, the session ends there: sync returns without
\* another request and the peer is in the uncooperative map.
OutsiderFrameEndsSession ==
    [][\A t \in Collectors :
         \A response \in FrameResponses, now \in Times :
           (/\ Requesting(t)
            /\ ~NotTheFrameAskedFor(response, latest[t])
            /\ ~response.producerInTrie
            /\ SyncReceive(t, response, now))
           => /\ SessionEnds(t)
              /\ peerId[t] \in DOMAIN uncooperativePeersMap'
              /\ peerId[t] \notin DOMAIN peerMap']_vars

\* C19: when the direct channel cannot be opened, sync returns at once: no
\* request is issued, nothing is inserted, latest is returned as it was,
\* with an error, and the peer moves from the cooperative to the
\* uncooperative map.
ChannelOpenFailureDemotes ==
    [][\A t \in Collectors, now \in Times :
         (pc[t] = "syncOpen" /\ SyncOpen(t, FALSE, now))
         => /\ SessionEnds(t)
            /\ ~channelOpen'[t]
            /\ reel' = reel
            /\ latest'[t] = latest[t]
            /\ syncErr'[t]
            /\ returnedAt'[t] = 305
            /\ PeerMoved(t)
            /\ uncooperativePeersMap'[peerId[t]].timestamp = now]_vars

\* sync has returned an error because the channel did not open, without a
\* frame inserted, and the peer is demoted
ChannelOpenFailed ==
    \E t \in Collectors :
        /\ returnedAt[t] = 305
        /\ syncErr[t]
        /\ reel[t] = <<>>
        /\ latest[t] = enqueued[t]
        /\ peerId[t] \in DOMAIN uncooperativePeersMap
        /\ peerId[t] \notin DOMAIN peerMap

\* C20: the channel of a session is open exactly while sync is in its
\* loop: the step by which sync returns, on whatever exit path, closes it,
\* it is closed by no other step, and no channel is open once sync has
\* returned.
ChannelClosedOnReturn ==
    /\ [](\A t \in Collectors : channelOpen[t] <=> pc[t] = "syncLoop")
    /\ [][\A t \in Collectors :
            (channelOpen[t] /\ ~channelOpen'[t])
              <=> (pc[t] = "syncLoop" /\ SessionEnds(t))]_vars

\* sync has left its loop because the engine is stopping, and the channel
\* it had opened is closed
ChannelClosedWhenStopping ==
    \E t \in Collectors :
        /\ returnedAt[t] = 372
        /\ engineState = "Stopping"
        /\ ~channelOpen[t]

\* a sync call of this collector is in progress
InSync(t) == pc[t] \in {"syncOpen", "syncLoop"}

\* C21: the sync status is Synchronizing from the entry of sync until it
\* returns and is NotSyncing (idle) again after every return of sync, the
\* returns with an error included; whenever no sync call is in progress the
\* status is NotSyncing.
SyncStatusFollowsSync ==
    /\ (\E t \in Collectors : InSync(t)) => syncingStatus = "Synchronizing"
    /\ (\A t \in Collectors : ~InSync(t)) => syncingStatus = "NotSyncing"
    /\ \A t \in Collectors :
         returnedAt[t] # 0 => syncingStatus = "NotSyncing"

\* sync has returned the error of a failed verification, and the status is
\* back to NotSyncing
StatusRestoredAfterError ==
    \E t \in Collectors :
        /\ returnedAt[t] = 364
        /\ syncErr[t]
        /\ latest[t] = Nil
        /\ syncingStatus = "NotSyncing"

\* the frame this step passes to Insert
Inserted(t) == reel'[t][Len(reel'[t])]

\* C22: a sync call started by collect never requests a frame numbered above
\* its maxFrame and never inserts one: while it is in its loop the frame it
\* holds is below maxFrame, so the request for the next frame is at most
\* maxFrame, and the call returns in the step in which the frame it holds
\* reaches maxFrame, whatever the peer could still serve.
SyncNeverPassesMaxFrame ==
    /\ [](\A t \in Collectors :
            InSync(t) => /\ latest[t] # Nil
                         /\ latest[t].FrameNumber + 1 <= maxFrame[t])
    /\ [][\A t \in Collectors :
            (pc[t] = "syncLoop" /\ reel'[t] # reel[t])
              => /\ Inserted(t).FrameNumber <= maxFrame[t]
                 /\ Inserted(t).FrameNumber = maxFrame[t]
                      => /\ SessionEnds(t)
                         /\ returnedAt'[t] = 369
                         /\ latest'[t] = Inserted(t)]_vars

\* sync returned at the head the peer advertised, which is below the highest
\* frame a peer can serve
ReturnedAtAdvertisedHead ==
    \E t \in Collectors :
        /\ returnedAt[t] = 369
        /\ latest[t] # Nil
        /\ latest[t].FrameNumber = maxFrame[t]
        /\ maxFrame[t] < MaxFrame
        /\ reel[t] # <<>>

\* C23: collect terminates whatever the peers do: a collect call that has
\* started its outer loop leaves it (the candidate list has become empty and
\* collect returns, or the call has ended in a nil dereference).
CollectTerminates ==
    \A t \in Collectors :
        (pc[t] = "getAhead") ~> (pc[t] \in {"done", "panic"})

\* the positions of prove between Lock() and Unlock(): the application is
\* materialized and the transitions are applied
UnderStagingMx == {"materialize", "apply", "applyFailed", "applied"}

\* the positions at which CommitRaw, ProveRaw and ProveDataClockFrame run
ProvingSteps == {"commit", "open", "frameProve"}

\* C24: prove holds the staging mutex while the application is materialized
\* and the transitions are applied and at no other position: not while
\* CommitRaw, ProveRaw or ProveDataClockFrame run and not once it has
\* returned; the mutex is given up only by the call that holds it, in the
\* step that leaves the locked region, so it is released once on every path
\* and never unlocked when it is not held.
StagingMxHeldOnlyForStaging ==
    /\ [](\A t \in Provers :
            /\ stagedTransactionsMx = t <=> ppc[t] \in UnderStagingMx
            /\ ppc[t] \in ProvingSteps \cup {"returned"}
                 => stagedTransactionsMx # t)
    /\ [][\A t \in Provers :
            (ppc[t] \in UnderStagingMx /\ ppc'[t] \notin UnderStagingMx)
              => /\ stagedTransactionsMx = t
                 /\ stagedTransactionsMx' = 0]_vars

\* one call is proving its frame while the other one holds the mutex and
\* applies the transitions
ProvingWhileOtherHoldsMx ==
    \E t, u \in Provers :
        /\ t # u
        /\ ppc[t] = "frameProve"
        /\ ppc[u] = "apply"
        /\ stagedTransactionsMx = u

\* prove leaves line 101 with the error of ApplyTransitions
ApplyFailedReturns(t) == ppc[t] = "applyFailed" /\ ppc'[t] # "applyFailed"

\* C25: when ApplyTransitions fails, prove replaces the staging buffer by an
\* empty list, releases the staging mutex and returns an error without a new
\* frame (lastProven stays); the transactions that were staged for the round
\* are gone: they are in no later staging buffer and in no round's valid or
\* invalid transactions.
FailedApplyResetsStaging ==
    /\ [][\A t \in Provers :
            ApplyFailedReturns(t)
              => /\ stagedTransactions' = TokenRequests(<<>>)
                 /\ stagedTransactionsMx = t
                 /\ stagedTransactionsMx' = 0
                 /\ ppc'[t] = "returned"
                 /\ result'[t] = "error"
                 /\ lastProven' = lastProven]_vars
    /\ [](\A x \in TxIds :
            discarded[x] > 0
              => /\ partitioned[x] = 0
                 /\ x \in Staged(stagedTransactions)
                      => \E t \in Provers : ppc[t] = "applyFailed")

\* the round of the first transaction failed in ApplyTransitions and prove
\* returned the error; the buffer holds the transaction staged afterwards only
FailedRoundDroppedTransaction ==
    \E t \in Provers :
        /\ ppc[t] = "returned"
        /\ result[t] = "error"
        /\ discarded[1] = 1
        /\ stagedTransactionsMx = 0
        /\ Staged(stagedTransactions) = {2}

\* C26: a failed load of the tries is surfaced: no prove call goes on past
\* the materialization with the tries of a failed load, it returns an error
\* without a frame instead.
FailedTriesLoadIsSurfaced ==
    \A t \in Provers : tries[t] # "failed"

\* C27: whenever lastProven >= n and lastProven is not 0, the engine has
\* itself produced frame n+1 through a successful prove, for every frame
\* number n.
LastProvenCoversProvenFrames ==
    \A n \in FrameNumbers :
        (lastProven >= n /\ lastProven # 0) => (n + 1) \in provenFrames

\* C27, as the code has it: when lastProven is not 0 the engine has itself
\* produced frame lastProven+1 through a successful prove; of the frames
\* below, which the test of prove skips as well, nothing is known.
LastProvenIsProvenFrame ==
    lastProven # 0 => (lastProven + 1) \in provenFrames

\* the engine has proven the successor of frame 2 and of no other frame: a
\* prove of frame 1 would be skipped, and frame 2 was never produced here
OnlyLastFrameProven ==
    /\ lastProven = 2
    /\ provenFrames = {3}
    /\ AlreadyProven(lastProven, 1)

\* C28: however the collect calls interleave, at most one sync channel to a
\* peer is being opened or is open at a time: no two sync calls in progress
\* have the same peer.
OneSyncChannelPerPeer ==
    \A t, u \in Collectors :
        (t # u /\ InSync(t) /\ InSync(u)) => peerId[t] # peerId[u]

\* sync returns with cooperative false: the deferred function demotes
DemotionRuns(t) == InSync(t) /\ SessionEnds(t) /\ ~cooperative'[t]

\* C29: demotion is idempotent. Demoting a peer that is not in the
\* cooperative map leaves both maps as they were, the recorded demotion time
\* included; demoting a peer a second time, at whatever time, changes nothing
\* after the first demotion, so the membership of the two maps is the same
\* after one demotion and after several.
DemotionIsIdempotent ==
    /\ [](\A p \in Peers, now \in Times, later \in Times :
            LET once == DemotedPeerMap(peerMap, p)
                onceUncooperative ==
                    DemotedUncooperative(peerMap, uncooperativePeersMap,
                                         p, now)
            IN
            /\ p \notin DOMAIN peerMap
                 => /\ once = peerMap
                    /\ onceUncooperative = uncooperativePeersMap
            /\ DemotedPeerMap(once, p) = once
            /\ DemotedUncooperative(once, onceUncooperative, p, later)
                 = onceUncooperative)
    /\ [][\A t \in Collectors :
            (DemotionRuns(t) /\ peerId[t] \notin DOMAIN peerMap)
              => /\ peerMap' = peerMap
                 /\ uncooperativePeersMap' = uncooperativePeersMap]_vars

\* two sync calls with the same peer have both failed to open the channel:
\* the peer was demoted by the first of them, and demoted again by the second
PeerDemotedTwice ==
    /\ returnedAt[1] = 305
    /\ returnedAt[2] = 305
    /\ peerId[1] = peerId[2]
    /\ peerId[1] \in DOMAIN uncooperativePeersMap
    /\ peerId[1] \notin DOMAIN peerMap

\* C30: collect takes its latest frame from a successful sync only: after a
\* sync call that returned an error, a failed verification included, collect
\* holds a non-nil latest frame whose number is not below the one it held
\* before and goes on with its loop; no collect call ends in a nil
\* dereference.
CollectKeepsLatestOnSyncError ==
    /\ [][\A t \in Collectors :
            (InSync(t) /\ SessionEnds(t) /\ syncErr'[t])
              => /\ latest'[t] # Nil
                 /\ latest'[t].FrameNumber >= latest[t].FrameNumber
                 /\ pc'[t] \in {"forCandidates", "getAhead"}]_vars
    /\ [](\A t \in Collectors : pc[t] # "panic")

\* C31: lastProven never decreases: whatever the prove calls and however
\* they interleave, each assignment to lastProven stores a value that is at
\* least the value it replaces.
LastProvenNeverDecreases ==
    [][lastProven' >= lastProven]_vars

\* prove returns from the materialization with its error
MaterializeFailedReturns(t) ==
    ppc[t] = "materialize" /\ ppc'[t] = "returned"

\* a step of a prove call up to the materialization: the entry with the test
\* of lastProven, the Lock() and the materialization of the application
StepBeforeApply(t) ==
    \/ ppc[t] \in {"idle", "returned"} /\ ProveEnter(t)
    \/ ppc[t] = "lock" /\ ppc'[t] = "materialize"
    \/ ppc[t] = "materialize" /\ ppc'[t] \in {"returned", "apply"}

\* C32: a prove call that short-circuits, or that fails while the application
\* is materialized from the previous frame, leaves the staging buffer as it
\* was: none of its steps changes the buffer, it is neither taken nor reset,
\* and a failed materialization returns the error with the mutex released.
EarlyReturnKeepsStaging ==
    [][\A t \in Provers :
         /\ StepBeforeApply(t) => stagedTransactions' = stagedTransactions
         /\ MaterializeFailedReturns(t)
              => /\ result'[t] = "error"
                 /\ stagedTransactionsMx = t
                 /\ stagedTransactionsMx' = 0
                 /\ partitioned' = partitioned
                 /\ discarded' = discarded
                 /\ lastProven' = lastProven]_vars

\* prove has returned an error and both transactions are in the staging
\* buffer, taken by no round so far
StagedLeftAfterError ==
    \E t \in Provers :
        /\ ppc[t] = "returned"
        /\ result[t] = "error"
        /\ Staged(stagedTransactions) = TxIds
        /\ \A x \in TxIds : partitioned[x] = 0 /\ discarded[x] = 0
        /\ stagedTransactionsMx = 0

====
